---- MODULE Spec2Model ----
(***************************************************************************)
(* Model of src/visualise.py: LidarVisualiser.read_points draining a       *)
(* serial transport, parsing "angle,distance,confidence" text records and  *)
(* storing them in the angle-binned scan map self.points.                  *)
(*                                                                         *)
(* Text is modelled as sequences of one-character strings.  A float is     *)
(* modelled exactly as a decimal num/den (den a power of ten); an angle    *)
(* bin (a Python float k/2) is modelled as the integer number of tenths of *)
(* a degree, so that "multiple of 0.5" is the arithmetic fact key % 5 = 0. *)
(* Doubling a float is exact and a tie of round() needs the doubled value  *)
(* to be k + 1/2 exactly, which a binary float holds exactly; so for the   *)
(* short decimal literals used here the exact arithmetic agrees with the   *)
(* floating-point one.                                                     *)
(*                                                                         *)
(* get_polar_data and the update() tick of main() are modelled too: the    *)
(* dict's iteration order, the snapshot handed to the scatter plot, the    *)
(* radial limit of the axes and the displayed point count.  The radial     *)
(* limit is kept in tenths of a millimetre, so that max_dist * 1.1 is the  *)
(* integer 11 * max_dist; an angle in radians is kept as its rational      *)
(* multiple of pi.                                                         *)
(***************************************************************************)
EXTENDS Integers, Sequences, FiniteSets, TLC

VARIABLES
    ser,          \* self.ser: "none" (None) or "open" (a serial.Serial)
    points,       \* self.points: angle bin (tenths of a degree) -> <<distance, confidence>>
    point_count,  \* self.point_count
    pc,           \* position inside read_points: "idle", "loop", "readline", "parse";
                  \* "render": in update(), after read_points returned
    line,         \* bytes readline() has collected / returned
    rxbuf,        \* the transport's input buffer (what in_waiting counts)
    tx,           \* rest of the line the sender is transmitting
    repertoire,   \* the record lines the device emits in this run
    nsent,        \* number of record lines the sender has started
    sent,         \* history: the whole lines the sender has started to send
    accepted,     \* history: accepted records <<bin, distance, confidence>>, in order
    pre,          \* history: <<points, point_count>> when the current/last poll began
    exit,         \* history: how the last poll ended
    last,         \* history: what the step just taken did with a line ("none": no line handled)
    order,        \* self.points: the keys in the dict's iteration (insertion) order
    caller,       \* who called read_points: "update" (the tick) or "none" (a direct call)
    rmax,         \* the polar axes' radial limit, ax.get_rmax(), in tenths of a millimetre
    scatter,      \* the data the tick last gave the scatter plot (set_offsets, set_array)
    shown,        \* the number in count_text (-1 while the text is still empty)
    snap,         \* history: what get_polar_data() last returned
    snapAt,       \* history: how many records had been accepted by then (-1: never called)
    angleIn,      \* the angle <<num, den>> last given to the quantiser on its own
    binOut        \* <<its bin>>, or <<>> before the first

\* The renderer's side and the stand-alone quantiser.
display == <<rmax, scatter, shown, snap, snapAt>>
quantiser == <<angleIn, binOut>>

vars == <<ser, points, point_count, pc, line, rxbuf, tx, repertoire, nsent,
          sent, accepted, pre, exit, last, order, caller, display, quantiser>>

(***************************************************************************)
(* Bounds of the model.                                                    *)
(***************************************************************************)
MaxSent == 2     \* record lines the sender transmits in one run
MaxBuf == 2      \* capacity of the transport's input buffer, in bytes

(***************************************************************************)
(* Program constants.                                                      *)
(***************************************************************************)
max_distance == 8000

\* ax.set_rlim(0, 4000): the radial limit the plot starts with.
InitialRmax == 4000

\* The cap of min(max_dist * 1.1, 8000).
RmaxCap == 8000

(***************************************************************************)
(* Text primitives, as read_points uses them.                              *)
(***************************************************************************)
\* A byte that is no valid UTF-8: decode(errors='ignore') drops it.
BadByte == "<FF>"

\* bytes.decode('utf-8', errors='ignore')
Decode(bytes) == SelectSeq(bytes, LAMBDA b : b # BadByte)

\* The characters str.strip(), float() and int() treat as whitespace.
Whitespace == {" ", "\t", "\r", "\n"}

\* str.strip(): what lies between the first and the last character that is
\* no whitespace.
Strip(s) ==
    LET keep == {i \in 1..Len(s) : s[i] \notin Whitespace}
    IN  IF keep = {} THEN <<>>
        ELSE SubSeq(s, CHOOSE a \in keep : \A j \in keep : a <= j,
                       CHOOSE b \in keep : \A j \in keep : j <= b)

\* str.startswith(p)
StartsWith(s, p) == Len(s) >= Len(p) /\ SubSeq(s, 1, Len(p)) = p

\* The banner token of line 51.
Banner == <<"L", "D", "0", "6">>

\* str.split(sep): the fields between the separators (one field when none).
Split(s, sep) ==
    LET idx == {i \in 1..Len(s) : s[i] = sep}
        n == Cardinality(idx)
        at(k) == CHOOSE p \in idx : Cardinality({j \in idx : j <= p}) = k
    IN  [k \in 1..(n + 1) |->
            SubSeq(s, IF k = 1 THEN 1 ELSE at(k - 1) + 1,
                      IF k = n + 1 THEN Len(s) ELSE at(k) - 1)]

DigitChars == {"0", "1", "2", "3", "4", "5", "6", "7", "8", "9"}

DigitVal(c) ==
    CASE c = "0" -> 0 [] c = "1" -> 1 [] c = "2" -> 2 [] c = "3" -> 3
      [] c = "4" -> 4 [] c = "5" -> 5 [] c = "6" -> 6 [] c = "7" -> 7
      [] c = "8" -> 8 [] c = "9" -> 9

AllDigits(s) == \A i \in 1..Len(s) : s[i] \in DigitChars

\* The value of the first n characters of a string of decimal digits.
RECURSIVE DecPrefix(_, _)
DecPrefix(s, n) ==
    IF n = 0 THEN 0 ELSE 10 * DecPrefix(s, n - 1) + DigitVal(s[n])

\* The value of a string of decimal digits (0 for the empty string).
DecVal(s) == DecPrefix(s, Len(s))

RECURSIVE Pow10(_)
Pow10(n) == IF n = 0 THEN 1 ELSE 10 * Pow10(n - 1)

\* A numeric literal's optional sign and the text after it.
SignOf(t) == IF t # <<>> /\ Head(t) = "-" THEN -1 ELSE 1
Unsigned(t) == IF t # <<>> /\ Head(t) \in {"+", "-"} THEN Tail(t) ELSE t

\* int(s): surrounding whitespace, an optional sign, one or more digits;
\* anything else raises ValueError (ok = FALSE).
ParseInt(s) ==
    LET t == Strip(s)
        b == Unsigned(t)
    IN  IF b # <<>> /\ AllDigits(b)
        THEN [ok |-> TRUE, val |-> SignOf(t) * DecVal(b)]
        ELSE [ok |-> FALSE, val |-> 0]

\* float(s): surrounding whitespace, an optional sign, then "inf", "nan" or
\* a decimal literal with at most one point and at least one digit; anything
\* else raises ValueError (ok = FALSE).  A finite value is num/den exactly.
ParseFloat(s) ==
    LET t == Strip(s)
        b == Unsigned(t)
        parts == Split(b, ".")
        ip == parts[1]
        fp == IF Len(parts) = 2 THEN parts[2] ELSE <<>>
    IN  IF b = <<"i", "n", "f">>
        THEN [ok |-> TRUE, kind |-> "inf", num |-> SignOf(t), den |-> 1]
        ELSE IF b = <<"n", "a", "n">>
        THEN [ok |-> TRUE, kind |-> "nan", num |-> 0, den |-> 1]
        ELSE IF /\ Len(parts) <= 2
                /\ AllDigits(ip) /\ AllDigits(fp)
                /\ Len(ip) + Len(fp) > 0
        THEN [ok |-> TRUE, kind |-> "finite",
              num |-> SignOf(t) * DecVal(ip \o fp), den |-> Pow10(Len(fp))]
        ELSE [ok |-> FALSE, kind |-> "none", num |-> 0, den |-> 1]

\* A rounding that takes every tie upwards.
PyRoundHalfUp(n, d) == (2 * n + d) \div (2 * d)

\* round(x) for the finite x = n/d, d > 0: the nearest integer, a tie going
\* to the even one.
PyRound(n, d) ==
    LET q == n \div d
        r == n % d
    IN  IF 2 * r < d THEN q
        ELSE IF 2 * r > d THEN q + 1
        ELSE IF q % 2 = 0 THEN q ELSE q + 1

\* angle_bin = round(angle * 2) / 2 for the finite angle num/den, in tenths
\* of a degree (the float k/2 is 5k tenths).
AngleBin(num, den) == 5 * PyRound(2 * num, den)

\* The range test without its lower bound.
InRangeNoLower(distance) == distance <= max_distance

\* The range test without its upper bound.
InRangeNoUpper(distance) == 0 <= distance

\* 0 <= distance <= self.max_distance
InRange(distance) == 0 <= distance /\ distance <= max_distance

\* A store that keeps the entry a bin already has.
StoreKeepFirst(map, bin, distance, confidence) ==
    [k \in DOMAIN map \cup {bin} |->
        IF k \in DOMAIN map THEN map[k] ELSE <<distance, confidence>>]

\* A store that starts a new map with every record.
StoreFresh(map, bin, distance, confidence) ==
    [k \in {bin} |-> <<distance, confidence>>]

\* A store that clamps the confidence to a byte.
StoreClamped(map, bin, distance, confidence) ==
    [k \in DOMAIN map \cup {bin} |->
        IF k = bin
        THEN <<distance, IF confidence < 0 THEN 0
                         ELSE IF confidence > 255 THEN 255 ELSE confidence>>
        ELSE map[k]]

\* self.points[angle_bin] = (distance, confidence)
Store(map, bin, distance, confidence) ==
    [k \in DOMAIN map \cup {bin} |->
        IF k = bin THEN <<distance, confidence>> ELSE map[k]]

\* A field count test that lets longer lines through.
FieldsOkAtLeast(parts) == Len(parts) >= 3

\* len(parts) != 3 is what line 55 rejects.
FieldsOk(parts) == Len(parts) = 3

\* What lines 50-71 do with the bytes readline() returned:
\*   "blank"   the stripped line is empty or starts with the banner (line 52)
\*   "fields"  the line has not exactly three fields (line 56)
\*   "value"   float(), int() or round() raised ValueError, caught at line 70
\*   "range"   the record parsed and its distance failed the test of line 66
\*   "accept"  the record is stored (lines 67-68)
\*   "raise"   round() raised OverflowError, which no handler of read_points catches
\* (text, parts and the three parsed fields are bound with \in, so that each
\* is computed once.)
Handle(raw) ==
    LET none(k) == [kind |-> k, bin |-> 0, distance |-> 0, confidence |-> 0]
        Record(angle, distance, confidence) ==
            IF ~angle.ok \/ ~distance.ok \/ ~confidence.ok THEN none("value")
            ELSE IF angle.kind = "nan" THEN none("value")
            ELSE IF angle.kind = "inf" THEN none("raise")
            ELSE [kind |-> IF InRange(distance.val) THEN "accept" ELSE "range",
                  bin |-> AngleBin(angle.num, angle.den),
                  distance |-> distance.val,
                  confidence |-> confidence.val]
        Fields(parts) ==
            IF ~FieldsOk(parts) THEN none("fields")
            ELSE CHOOSE h \in {Record(a, d, c) : a \in {ParseFloat(parts[1])},
                                                  d \in {ParseInt(parts[2])},
                                                  c \in {ParseInt(parts[3])}} : TRUE
        Text(text) ==
            IF text = <<>> \/ StartsWith(text, Banner) THEN none("blank")
            ELSE CHOOSE h \in {Fields(parts) : parts \in {Split(text, ",")}} : TRUE
    IN  CHOOSE h \in {Text(text) : text \in {Strip(Decode(raw))}} : TRUE

\* An order that records every write, also one to a key already present.
TouchAlways(ord, bin) == Append(ord, bin)

\* The dict's iteration order after self.points[bin] = ...: a new key goes
\* to the end, a key the dict already has keeps its place.
Touch(ord, bin) ==
    IF \E i \in 1..Len(ord) : ord[i] = bin THEN ord ELSE Append(ord, bin)

(***************************************************************************)
(* get_polar_data and the renderer's tick.                                 *)
(***************************************************************************)
\* math.radians(angle) for the bin of so many tenths of a degree: the
\* multiple <<n, d>> of pi, n/d in lowest terms (tenths / 1800).
RECURSIVE Gcd(_, _)
Gcd(a, b) == IF b = 0 THEN a ELSE Gcd(b, a % b)

Radians(tenths) ==
    LET g == Gcd(IF tenths < 0 THEN -tenths ELSE tenths, 1800)
    IN  <<tenths \div g, 1800 \div g>>

\* Three empty arrays (line 79).
NoData == [angles |-> <<>>, distances |-> <<>>, confidences |-> <<>>]

\* get_polar_data(): the three arrays built by the loop over
\* self.points.items(), which follows the dict's order.
PolarData(map, ord) ==
    IF DOMAIN map = {} THEN NoData
    ELSE [angles |-> [i \in 1..Len(ord) |-> Radians(ord[i])],
          distances |-> [i \in 1..Len(ord) |-> map[ord[i]][1]],
          confidences |-> [i \in 1..Len(ord) |-> map[ord[i]][2]]]

\* np.max(distances)
MaxOf(seq) == CHOOSE m \in {seq[i] : i \in 1..Len(seq)} :
                  \A i \in 1..Len(seq) : seq[i] <= m

\* A limit that follows the largest distance in both directions.
AutoscaleAlways(limit, max_dist) ==
    IF 11 * max_dist < 10 * RmaxCap THEN 11 * max_dist ELSE 10 * RmaxCap

\* A limit without the cap.
AutoscaleUncapped(limit, max_dist) ==
    IF 10 * max_dist > limit THEN 11 * max_dist ELSE limit

\* Lines 169-171, the limit in tenths of a millimetre: when the largest
\* distance exceeds the limit, the limit becomes min(max_dist * 1.1, 8000).
Autoscale(limit, max_dist) ==
    IF 10 * max_dist > limit
    THEN IF 11 * max_dist < 10 * RmaxCap THEN 11 * max_dist ELSE 10 * RmaxCap
    ELSE limit

\* Where read_points returns to: the tick that called it, or nowhere.
ReturnTo == IF caller = "update" THEN "render" ELSE "idle"

(***************************************************************************)
(* The sender: the lines the device may transmit, byte by byte.            *)
(***************************************************************************)
BlankLine == <<"\n">>

LineA == <<"0", ".", "2", ",", "1", "5", ",", "7", "0", "\r", "\n">>  \* bin 0.0
LineB == <<"0", ".", "1", ",", "1", "6", ",", "8", "\n">>             \* bin 0.0 again
LineC == <<"0", ".", "3", ",", "1", "6", ",", "8", "\n">>             \* bin 0.5
LineTop == <<"3", "5", "9", ".", "8", ",", "1", ",", "7", "\n">>      \* just below 360
LineNeg == <<"-", "1", ",", "1", "5", ",", "7", "\n">>                \* negative angle
LineFar == <<"0", ".", "2", ",", "9", "0", "0", "0", ",", "7", "\n">> \* distance too large
LineBehind == <<"0", ".", "2", ",", "-", "5", ",", "7", "\n">>        \* distance negative
LineInf == <<"i", "n", "f", ",", "1", "5", ",", "7", "\n">>           \* infinite angle
LineNan == <<"n", "a", "n", ",", "1", "5", ",", "7", "\n">>           \* NaN angle
LineText == <<"0", ".", "2", ",", "a", "b", ",", "7", "\n">>          \* distance not a number
LineBanner == <<"L", "D", "0", "6", "\n">>                            \* banner
LineLong == <<"1", ",", "2", ",", "3", ",", "4", "\n">>               \* four fields
LineNoise == <<"2", ",", "1", BadByte, "5", ",", "7", "\n">>          \* an undecodable byte

\* The runs explored: in each the device emits lines of one of these sets.
Repertoires == {
    {LineA, LineB},
    {LineA, LineFar},
    {LineC, LineBehind},
    {LineTop, LineNeg},
    {LineInf, LineNan},
    {LineB, LineText},
    {LineBanner, LineLong},
    {LineC, LineNoise} }

(***************************************************************************)
(* State after LidarVisualiser(port), before connect().                    *)
(***************************************************************************)
InitWith(lines) ==
    /\ ser = "none"
    /\ points = <<>>
    /\ point_count = 0
    /\ pc = "idle"
    /\ line = <<>>
    /\ rxbuf = <<>>
    /\ tx = <<>>
    /\ repertoire = lines
    /\ nsent = 0
    /\ sent = {}
    /\ accepted = <<>>
    /\ pre = <<points, point_count>>
    /\ exit = "none"
    /\ last = "none"
    /\ order = <<>>
    /\ caller = "none"
    /\ rmax = 10 * InitialRmax
    /\ scatter = NoData
    /\ shown = -1
    /\ snap = NoData
    /\ snapAt = -1
    /\ angleIn = <<0, 1>>
    /\ binOut = <<>>

Init == \E lines \in Repertoires : InitWith(lines)

\* connect(): opens the port, or reports the failure and leaves self.ser None.
Connect ==
    /\ ser = "none"
    /\ pc = "idle"
    /\ \E ok \in BOOLEAN : ser' = IF ok THEN "open" ELSE "none"
    /\ UNCHANGED <<points, point_count, pc, line, rxbuf, tx, repertoire, nsent,
                   sent, accepted, pre, exit, last, order, caller, display,
                   quantiser>>

\* The device puts the next byte of its output into the input buffer; between
\* lines it chooses the next line (blank keep-alive lines are not counted).
Deliver ==
    /\ ser = "open"
    /\ Len(rxbuf) < MaxBuf
    /\ IF tx # <<>>
       THEN /\ rxbuf' = Append(rxbuf, Head(tx))
            /\ tx' = Tail(tx)
            /\ UNCHANGED <<nsent, sent>>
       ELSE \E L \in repertoire \cup {BlankLine} :
            /\ L # BlankLine => nsent < MaxSent
            /\ rxbuf' = Append(rxbuf, Head(L))
            /\ tx' = Tail(L)
            /\ nsent' = IF L # BlankLine THEN nsent + 1 ELSE nsent
            /\ sent' = sent \cup {L}
    /\ UNCHANGED <<ser, points, point_count, pc, line, repertoire, accepted,
                   pre, exit, last, order, caller, display, quantiser>>

\* read_points() is called (lines 43-48).
ReadPoints ==
    /\ pc = "idle"
    /\ pre' = <<points, point_count>>
    /\ IF ser = "none"
       THEN pc' = "idle" /\ exit' = "noser"
       ELSE pc' = "loop" /\ exit' = "running"
    /\ last' = "none"
    /\ UNCHANGED <<ser, points, point_count, line, rxbuf, tx, repertoire, nsent,
                   sent, accepted, order, caller, display, quantiser>>

\* while self.ser.in_waiting (line 49): enter readline(), or return.
LoopTest ==
    /\ pc = "loop"
    /\ IF rxbuf # <<>>
       THEN pc' = "readline" /\ exit' = exit
       ELSE pc' = ReturnTo /\ exit' = "return"
    /\ last' = "none"
    /\ UNCHANGED <<ser, points, point_count, line, rxbuf, tx, repertoire, nsent,
                   sent, accepted, pre, order, caller, display, quantiser>>

\* readline() takes the bytes the buffer holds, up to and including the first
\* newline; the newline completes the line, otherwise it waits for more.
ReadBytes ==
    /\ pc = "readline"
    /\ rxbuf # <<>>
    /\ LET nl == {i \in 1..Len(rxbuf) : rxbuf[i] = "\n"}
           n == IF nl = {} THEN Len(rxbuf)
                ELSE CHOOSE k \in nl : \A j \in nl : k <= j
       IN  /\ line' = line \o SubSeq(rxbuf, 1, n)
           /\ rxbuf' = SubSeq(rxbuf, n + 1, Len(rxbuf))
           /\ pc' = IF nl = {} THEN "readline" ELSE "parse"
    /\ UNCHANGED <<ser, points, point_count, tx, repertoire, nsent, sent,
                   accepted, pre, exit, last, order, caller, display, quantiser>>

\* readline() finds no byte within the read timeout (timeout=0.01, line 36)
\* and returns what it has collected.
ReadTimeout ==
    /\ pc = "readline"
    /\ rxbuf = <<>>
    /\ pc' = "parse"
    /\ UNCHANGED <<ser, points, point_count, line, rxbuf, tx, repertoire, nsent,
                   sent, accepted, pre, exit, last, order, caller, display,
                   quantiser>>

\* Lines 50-71 with a counter of the map's entries instead of the records.
HandleLineCountsBins ==
    /\ pc = "parse"
    /\ \E h \in {Handle(line)} :
           /\ last' = h.kind
           /\ IF h.kind = "accept"
              THEN /\ points' = Store(points, h.bin, h.distance, h.confidence)
                   /\ order' = Touch(order, h.bin)
                   /\ point_count' = Cardinality(DOMAIN points')
                   /\ accepted' = Append(accepted, <<h.bin, h.distance, h.confidence>>)
              ELSE UNCHANGED <<points, order, point_count, accepted>>
           /\ IF h.kind = "raise"
              THEN pc' = "idle" /\ exit' = "raise" /\ caller' = "none"
              ELSE pc' = "loop" /\ exit' = exit /\ caller' = caller
    /\ line' = <<>>
    /\ UNCHANGED <<ser, rxbuf, tx, repertoire, nsent, sent, pre, display, quantiser>>

\* Lines 50-71 on the line readline() returned.  An exception that escapes
\* read_points also ends the update() that called it, before its snapshot.
HandleLine ==
    /\ pc = "parse"
    /\ \E h \in {Handle(line)} :
           /\ last' = h.kind
           /\ IF h.kind = "accept"
              THEN /\ points' = Store(points, h.bin, h.distance, h.confidence)
                   /\ order' = Touch(order, h.bin)
                   /\ point_count' = point_count + 1
                   /\ accepted' = Append(accepted, <<h.bin, h.distance, h.confidence>>)
              ELSE UNCHANGED <<points, order, point_count, accepted>>
           /\ IF h.kind = "raise"
              THEN pc' = "idle" /\ exit' = "raise" /\ caller' = "none"
              ELSE pc' = "loop" /\ exit' = exit /\ caller' = caller
    /\ line' = <<>>
    /\ UNCHANGED <<ser, rxbuf, tx, repertoire, nsent, sent, pre, display, quantiser>>

\* in_waiting or readline() raises serial.SerialException (lines 73-74): the
\* bytes readline() had taken are lost and the poll ends.
IOError ==
    /\ pc \in {"loop", "readline"}
    /\ pc' = ReturnTo
    /\ line' = <<>>
    /\ exit' = "ioerror"
    /\ last' = "none"
    /\ UNCHANGED <<ser, points, point_count, rxbuf, tx, repertoire, nsent, sent,
                   accepted, pre, order, caller, display, quantiser>>

Next ==
    \/ Connect
    \/ Deliver
    \/ ReadPoints
    \/ LoopTest
    \/ ReadBytes
    \/ ReadTimeout
    \/ HandleLine
    \/ IOError

Spec == Init /\ [][Next]_vars

(***************************************************************************)
(* The program's own steps are taken when enabled: the interpreter runs    *)
(* the loop, and the read timeout expires by the clock.  The sender is     *)
(* under no obligation.                                                    *)
(***************************************************************************)
LiveSpec ==
    /\ Spec
    /\ WF_vars(LoopTest)
    /\ WF_vars(ReadBytes)
    /\ WF_vars(ReadTimeout)
    /\ WF_vars(HandleLine)

(***************************************************************************)
(* One rotation of the device, an angle every half degree from 0.0 to      *)
(* 359.5 and a last one at 359.8, each line arriving whole between polls.  *)
(***************************************************************************)
NumBins == 360 * 2

DigitChar(d) ==
    CASE d = 0 -> "0" [] d = 1 -> "1" [] d = 2 -> "2" [] d = 3 -> "3"
      [] d = 4 -> "4" [] d = 5 -> "5" [] d = 6 -> "6" [] d = 7 -> "7"
      [] d = 8 -> "8" [] d = 9 -> "9"

RECURSIVE DecStr(_)
DecStr(n) ==
    IF n < 10 THEN <<DigitChar(n)>>
    ELSE DecStr(n \div 10) \o <<DigitChar(n % 10)>>

SweepLine(i) ==
    IF i < NumBins
    THEN DecStr(i \div 2) \o <<".", IF i % 2 = 0 THEN "0" ELSE "5">>
         \o <<",", "1", ",", "1", "\n">>
    ELSE LineTop

SweepSend ==
    /\ ser = "open"
    /\ pc = "idle"
    /\ rxbuf = <<>>
    /\ nsent <= NumBins
    /\ rxbuf' = SweepLine(nsent)
    /\ nsent' = nsent + 1
    /\ sent' = sent \cup {SweepLine(nsent)}
    /\ UNCHANGED <<ser, points, point_count, pc, line, tx, repertoire,
                   accepted, pre, exit, last, order, caller, display, quantiser>>

InitSweep == InitWith({})

NextSweep ==
    \/ Connect
    \/ SweepSend
    \/ ReadPoints
    \/ LoopTest
    \/ ReadBytes
    \/ HandleLine

SpecSweep == InitSweep /\ [][NextSweep]_vars

(***************************************************************************)
(* The renderer: main() has connected the port, and FuncAnimation calls    *)
(* update(frame) tick after tick; get_polar_data() may also be called on   *)
(* its own between ticks.                                                  *)
(***************************************************************************)
LineHigh == <<"1", ",", "5", "0", "0", "0", ",", "3", "0", "0", "\n">>  \* confidence over 255
LinePeak == <<"1", ",", "7", "5", "0", "0", ",", "-", "1", "\n">>      \* negative confidence
LineMid == <<"2", ",", "4", "5", "0", "0", ",", "9", "\n">>
LineNear == <<"3", ",", "2", "0", ",", "9", "\n">>

TickRepertoires == {
    {LineHigh, LinePeak},
    {LineMid, LineNear},
    {LineB, LineInf} }

InitTick == \E lines \in TickRepertoires : InitWith(lines)

\* update(frame) begins (line 160): it calls read_points().
Update ==
    /\ pc = "idle"
    /\ ser = "open"
    /\ pc' = "loop"
    /\ caller' = "update"
    /\ pre' = <<points, point_count>>
    /\ exit' = "running"
    /\ last' = "none"
    /\ UNCHANGED <<ser, points, point_count, line, rxbuf, tx, repertoire, nsent,
                   sent, accepted, order, display, quantiser>>

\* The rest of update (lines 162-175): the snapshot, the scatter data and
\* the radial limit when the snapshot is not empty, then the point count.
Render ==
    /\ pc = "render"
    /\ \E data \in {PolarData(points, order)} :
           /\ snap' = data
           /\ snapAt' = Len(accepted)
           /\ IF Len(data.angles) > 0
              THEN /\ scatter' = data
                   /\ rmax' = Autoscale(rmax, MaxOf(data.distances))
              ELSE UNCHANGED <<scatter, rmax>>
    /\ shown' = Cardinality(DOMAIN points)
    /\ pc' = "idle"
    /\ caller' = "none"
    /\ UNCHANGED <<ser, points, point_count, line, rxbuf, tx, repertoire, nsent,
                   sent, accepted, pre, exit, last, order, quantiser>>

\* A get_polar_data() that empties the map it has read.
GetPolarDataDraining ==
    /\ pc = "idle"
    /\ snap' = PolarData(points, order)
    /\ snapAt' = Len(accepted)
    /\ points' = <<>>
    /\ order' = <<>>
    /\ UNCHANGED <<ser, point_count, pc, line, rxbuf, tx, repertoire, nsent,
                   sent, accepted, pre, exit, last, caller, rmax, scatter, shown,
                   quantiser>>

\* get_polar_data() called on its own (lines 76-90): it reads the map.
GetPolarData ==
    /\ pc = "idle"
    /\ snap' = PolarData(points, order)
    /\ snapAt' = Len(accepted)
    /\ points' = points
    /\ order' = order
    /\ UNCHANGED <<ser, point_count, pc, line, rxbuf, tx, repertoire, nsent,
                   sent, accepted, pre, exit, last, caller, rmax, scatter, shown,
                   quantiser>>

NextTick ==
    \/ Connect
    \/ Deliver
    \/ Update
    \/ LoopTest
    \/ ReadBytes
    \/ ReadTimeout
    \/ HandleLine
    \/ IOError
    \/ Render
    \/ GetPolarData

SpecTick == InitTick /\ [][NextTick]_vars

(***************************************************************************)
(* The quantiser of line 64 on its own, over the angles n/100.             *)
(***************************************************************************)
MaxHundredths == 200

AngleInputs == {<<n, 100>> : n \in (0 - MaxHundredths)..MaxHundredths}

Quantise ==
    /\ \E a \in AngleInputs :
           /\ angleIn' = a
           /\ binOut' = <<AngleBin(a[1], a[2])>>
    /\ UNCHANGED <<ser, points, point_count, pc, line, rxbuf, tx, repertoire,
                   nsent, sent, accepted, pre, exit, last, order, caller, display>>

InitBin == InitWith({})

NextBin == Quantise

SpecBin == InitBin /\ [][NextBin]_vars

(***************************************************************************)
(* Properties.                                                             *)
(***************************************************************************)
\* The bins of the records accepted so far, and the last record accepted for a bin.
AcceptedBins == {accepted[i][1] : i \in 1..Len(accepted)}
LastAccepted(b) ==
    LET i == CHOOSE k \in 1..Len(accepted) :
                 /\ accepted[k][1] = b
                 /\ \A j \in (k + 1)..Len(accepted) : accepted[j][1] # b
    IN  <<accepted[i][2], accepted[i][3]>>

\* C1: the scan map holds exactly one entry per bin for which a record was
\* accepted, and that entry is the (distance, confidence) of the record most
\* recently accepted for the bin.
C1_LastWriterWins ==
    /\ DOMAIN points = AcceptedBins
    /\ \A b \in DOMAIN points : points[b] = LastAccepted(b)

\* Two records with different values were accepted for one bin, and the
\* map holds the later one.
C1_Witness ==
    \E i \in 1..Len(accepted) : \E j \in (i + 1)..Len(accepted) :
        /\ accepted[i][1] = accepted[j][1]
        /\ <<accepted[i][2], accepted[i][3]>> # <<accepted[j][2], accepted[j][3]>>
        /\ j = Len(accepted)
        /\ points[accepted[j][1]] = <<accepted[j][2], accepted[j][3]>>

\* C2: the scan map never has more than 720 entries.
C2_AtMost720Bins == Cardinality(DOMAIN points) <= NumBins

\* C3: every key of the scan map is a multiple of 0.5 in [0, 360).
C3_BinsInCircle ==
    \A k \in DOMAIN points : k % 5 = 0 /\ 0 <= k /\ k < 3600

\* C4: every stored distance d satisfies 0 <= d <= max_distance.
C4_StoredDistanceInRange ==
    \A k \in DOMAIN points : 0 <= points[k][1] /\ points[k][1] <= max_distance

\* A record has just been stored in a run whose sender also sent a record
\* with a negative distance.
C4_Witness ==
    /\ last = "accept"
    /\ LineBehind \in sent
    /\ \E k \in DOMAIN points : points[k][1] > 0

\* C5: every entry of the scan map is what a whole line the sender sent
\* parses to; no entry comes from a piece of a line split across reads.
C5_OnlyWholeLines ==
    \A k \in DOMAIN points :
        \E L \in sent :
            LET h == Handle(L)
            IN  h.kind = "accept" /\ h.bin = k
                /\ points[k] = <<h.distance, h.confidence>>

\* C6: no exception escapes read_points because of the content of a line.
C6_NoExceptionEscapes == exit # "raise"

\* C7: a poll ended by a transport I/O error leaves the scan map and the
\* lifetime counter as they were when the poll began.
C7_FailedPollAddsNothing ==
    exit = "ioerror" => <<points, point_count>> = pre

\* A well-formed record (three fields: a finite float, an int, an int) whose
\* distance lies outside [0, max_distance].
OutOfRangeRecord(raw) ==
    LET parts == Split(Strip(Decode(raw)), ",")
    IN  /\ Len(parts) = 3
        /\ ParseFloat(parts[1]).ok /\ ParseFloat(parts[1]).kind = "finite"
        /\ ParseInt(parts[2]).ok /\ ParseInt(parts[3]).ok
        /\ (ParseInt(parts[2]).val < 0 \/ ParseInt(parts[2]).val > max_distance)

\* C8: handling a well-formed record whose distance is outside
\* [0, max_distance] changes neither the scan map nor point_count, whatever
\* the map holds.
C8_OutOfRangeRejected ==
    [][(pc = "parse" /\ OutOfRangeRecord(line))
        => (points' = points /\ point_count' = point_count)]_vars

\* An out-of-range record for bin 0.0 has just been rejected while bin 0.0
\* held an entry.
C8_Witness ==
    /\ last = "range"
    /\ LineFar \in sent
    /\ 0 \in DOMAIN points
    /\ point_count = 1

\* A line the parser must skip: empty after trimming, starting with the
\* banner, not of exactly three fields, or with a field that is no number
\* of its type.
Skippable(raw) ==
    LET text == Strip(Decode(raw))
        parts == Split(text, ",")
    IN  \/ text = <<>>
        \/ StartsWith(text, Banner)
        \/ Len(parts) # 3
        \/ ~ParseFloat(parts[1]).ok
        \/ ~ParseInt(parts[2]).ok
        \/ ~ParseInt(parts[3]).ok

\* C9: handling a skippable line changes neither the scan map nor
\* point_count, and the poll goes on to the next line.
C9_MalformedSkipped ==
    [][(pc = "parse" /\ pc' # "parse" /\ Skippable(line))
        => (points' = points /\ point_count' = point_count /\ pc' = "loop")]_vars

\* A line with a non-numeric field has just been skipped while the map held
\* an entry, and the poll is back at the head of its loop.
C9_Witness ==
    /\ last = "value"
    /\ LineText \in sent
    /\ points # <<>>
    /\ pc = "loop"

\* C10: every poll terminates, whatever the sender does.
C10_PollTerminates == (pc # "idle") ~> (pc = "idle")

\* C11: while no record has been accepted since get_polar_data() last
\* returned, a call of it returns the same three sequences again, in the
\* same order and with the same values.
C11_SnapshotRepeats ==
    snapAt = Len(accepted) => PolarData(points, order) = snap

\* Two ticks in a row, the second accepting nothing: its snapshot of a map
\* of two bins is the one the tick before it took.
C11_Witness ==
    /\ pc = "idle" /\ exit = "return"
    /\ pre[1] = points
    /\ shown = 2
    /\ snapAt = Len(accepted)
    /\ Len(snap.angles) = 2
    /\ snap = scatter

\* C12: get_polar_data() returns three sequences as long as the map has
\* entries; every entry is at exactly one index, where the three sequences
\* hold its bin in radians, its distance and its confidence; an empty map
\* gives three empty sequences.
C12_AlignedSequences ==
    snapAt = Len(accepted) =>
        LET n == Cardinality(DOMAIN points)
        IN  /\ Len(snap.angles) = n
            /\ Len(snap.distances) = n
            /\ Len(snap.confidences) = n
            /\ \A b \in DOMAIN points :
                   /\ Cardinality({i \in 1..n : snap.angles[i] = Radians(b)}) = 1
                   /\ \A i \in 1..n :
                          snap.angles[i] = Radians(b) =>
                              /\ snap.distances[i] = points[b][1]
                              /\ snap.confidences[i] = points[b][2]

\* A snapshot of one bin that was written twice.
C12_Witness ==
    /\ snapAt = Len(accepted)
    /\ Len(accepted) = 2
    /\ Len(snap.angles) = 1
    /\ accepted[1][1] = accepted[2][1]
    /\ snap.distances[1] = accepted[2][2]

\* C13: the radial limit never decreases; a step changes it only as the
\* tick's rendering of a snapshot whose largest distance exceeds the limit,
\* and such a rendering sets it to min(1.1 * largest, 8000), which is larger
\* than the limit was.
C13_LimitGrowsOnly ==
    [][/\ rmax' >= rmax
       /\ rmax' # rmax =>
              /\ pc = "render" /\ pc' = "idle"
              /\ Len(snap'.distances) > 0
              /\ 10 * MaxOf(snap'.distances) > rmax
       /\ (pc = "render" /\ pc' = "idle" /\ DOMAIN points # {}
           /\ 10 * MaxOf(snap'.distances) > rmax) =>
              /\ rmax' = IF 11 * MaxOf(snap'.distances) < 10 * RmaxCap
                         THEN 11 * MaxOf(snap'.distances)
                         ELSE 10 * RmaxCap
              /\ rmax' > rmax]_vars

\* A tick has raised the limit from 4000 to 5500 for a largest distance of 5000.
C13_Witness ==
    /\ pc = "idle"
    /\ rmax = 55000
    /\ Len(scatter.distances) = 1
    /\ scatter.distances[1] = 5000

\* C14: a tick polls and ingests, then takes the snapshot, then updates the
\* point count: once a tick is over, the data it gave the scatter plot
\* reflect every record accepted in it and the displayed count is the number
\* of entries of the map.
C14_TickShowsAll ==
    (pc = "idle" /\ exit \in {"return", "ioerror", "raise"}) =>
        /\ shown = Cardinality(DOMAIN points)
        /\ DOMAIN points # {} => scatter = PolarData(points, order)

\* C15: no step removes a key from the scan map, and a step changes the
\* value of a bin only by accepting a record for that bin.
C15_NoEntryLost ==
    [][/\ DOMAIN points \subseteq DOMAIN points'
       /\ \A b \in DOMAIN points :
              points'[b] # points[b] =>
                  /\ pc = "parse" /\ last' = "accept"
                  /\ accepted' = Append(accepted, <<b, points'[b][1], points'[b][2]>>)]_vars

\* A map of two bins has come through a tick whose poll an I/O error ended
\* and which was rendered.
C15_Witness ==
    /\ pc = "idle" /\ exit = "ioerror"
    /\ Cardinality(DOMAIN points) = 2
    /\ pre[1] = points
    /\ shown = 2

\* C16: point_count starts at 0 and never decreases; accepting a record
\* adds exactly 1 to it, also when the record overwrites a bin, and a
\* rejected line leaves it alone; so it is the number of records accepted so
\* far and at least the number of entries of the map.
C16_CounterCountsAccepted ==
    /\ point_count = 0
    /\ [](point_count = Len(accepted) /\ point_count >= Cardinality(DOMAIN points))
    /\ [][/\ point_count' >= point_count
           /\ (pc = "parse" /\ pc' # "parse") =>
                  point_count' = IF last' = "accept" THEN point_count + 1
                                 ELSE point_count]_vars

\* A second record for a bin has just been accepted: two records counted,
\* one entry.
C16_Witness ==
    /\ last = "accept"
    /\ point_count = 2
    /\ Cardinality(DOMAIN points) = 1

\* C17: the bin computed for a finite angle a is round(2a)/2 with ties to
\* the even integer: a multiple of 0.5 at most 0.25 away from a, and, when a
\* lies midway between two multiples of 0.5, the one that is an even number
\* of halves; so 0.2 gives 0.0, 0.3 gives 0.5, 0.25 gives 0.0, 0.75 gives 1.0.
C17_NearestHalfTiesEven ==
    binOut # <<>> =>
        LET b == binOut[1]
            n == angleIn[1]
            d == angleIn[2]
            off == IF b * d >= 10 * n THEN b * d - 10 * n ELSE 10 * n - b * d
        IN  /\ b % 5 = 0
            /\ 4 * off <= 10 * d
            /\ 4 * off = 10 * d => (b \div 5) % 2 = 0
            /\ angleIn = <<20, 100>> => b = 0
            /\ angleIn = <<30, 100>> => b = 5
            /\ angleIn = <<25, 100>> => b = 0
            /\ angleIn = <<75, 100>> => b = 10

\* The tie 0.75 has been quantised, to 1.0.
C17_Witness == angleIn = <<75, 100>> /\ binOut = <<10>>

\* A well-formed record (three fields: a finite float, an int, an int) whose
\* distance lies in [0, max_distance]; and its three values.
InRangeRecord(raw) ==
    LET parts == Split(Strip(Decode(raw)), ",")
    IN  /\ Len(parts) = 3
        /\ ParseFloat(parts[1]).ok /\ ParseFloat(parts[1]).kind = "finite"
        /\ ParseInt(parts[2]).ok /\ ParseInt(parts[3]).ok
        /\ 0 <= ParseInt(parts[2]).val /\ ParseInt(parts[2]).val <= max_distance
RecordOf(raw) ==
    LET parts == Split(Strip(Decode(raw)), ",")
    IN  [bin |-> AngleBin(ParseFloat(parts[1]).num, ParseFloat(parts[1]).den),
         distance |-> ParseInt(parts[2]).val,
         confidence |-> ParseInt(parts[3]).val]

\* C18: the confidence is not range-checked: a well-formed record with an
\* in-range distance is accepted whatever integer its confidence is, the
\* map holds that confidence as it was parsed, and get_polar_data() returns
\* the confidences the map holds, unchanged.
C18_ConfidenceUnchecked ==
    [][/\ (pc = "parse" /\ pc' # "parse" /\ InRangeRecord(line)) =>
              \E r \in {RecordOf(line)} :
                  /\ r.bin \in DOMAIN points'
                  /\ points'[r.bin] = <<r.distance, r.confidence>>
                  /\ point_count' = point_count + 1
       /\ snapAt' = Len(accepted') =>
              \A b \in DOMAIN points' :
                  \E i \in 1..Len(snap'.angles) :
                      /\ snap'.angles[i] = Radians(b)
                      /\ snap'.confidences[i] = points'[b][2]]_vars

\* A record of confidence 300 and then one of confidence -1 were accepted
\* for a bin, and the snapshot returns the -1.
C18_Witness ==
    /\ snapAt = Len(accepted)
    /\ Len(accepted) = 2
    /\ accepted[1][3] = 300
    /\ accepted[2][3] = 0 - 1
    /\ snap.confidences = <<0 - 1>>

\* C19: the radial limit, 4000 at the start, always lies in [4000, 8000],
\* and after every tick it is at least the largest distance in the snapshot
\* that tick gave the renderer: every point shown lies within the radius.
C19_LimitCoversSnapshot ==
    /\ 10 * InitialRmax <= rmax
    /\ rmax <= 10 * RmaxCap
    /\ \A i \in 1..Len(scatter.distances) : 10 * scatter.distances[i] <= rmax

\* A tick has rendered a snapshot whose largest distance is 7500, and the
\* limit stands at the cap of 8000.
C19_Witness ==
    /\ pc = "idle"
    /\ scatter = snap
    /\ MaxOf(scatter.distances \o <<0>>) = 7500
    /\ rmax = 10 * RmaxCap

====
